---- MODULE Spec2Model ----
(***************************************************************************)
(* Model of ArgditLib/EntrezDBAccess.py: the accession-number Batcher      *)
(* (_split_acc_nums_into_batch), the three Entrez remote calls with their  *)
(* retry loops (_entrez_post, _entrez_fetch_hist, _entrez_fetch), the      *)
(* orchestrators (_search_entrez, _search_entrez_hist) and the public      *)
(* search operations built on them.                                        *)
(*                                                                         *)
(* Two specifications share the variables:                                 *)
(*   SpecBatcher  runs _split_acc_nums_into_batch alone, one loop          *)
(*                iteration per step, on every small input;                *)
(*   Spec         runs one invocation of a search operation against a      *)
(*                remote service and a parser sink that answer             *)
(*                nondeterministically.                                    *)
(***************************************************************************)
EXTENDS Integers, Sequences, FiniteSets, TLC

(***************************************************************************)
(* Program constants (EntrezDBAccess.py lines 12-15).                      *)
(***************************************************************************)
EPOST_FT_BATCH_SIZE == 100
EPOST_SEQ_BATCH_SIZE == 100
EFETCH_BATCH_SIZE == 100
MAX_ATTEMPT == 3

(***************************************************************************)
(* Bounds of the model.                                                    *)
(***************************************************************************)
\* identifiers of the Batcher specification are 1..MaxIds
MaxIds == 3
\* longest input sequence given to the Batcher specification
MaxLen == 4
\* largest batch size given to the Batcher specification
MaxB == 3
\* batch sizes given to the Batcher specification go down to -NegB
NegB == 2
\* identifier subsets of the orchestrator have k*100 or k*100+1 members, k <= MaxFull
MaxFull == 1
\* calls of set_entrez_email in one behaviour
MaxReconfig == 1

\* iterations after which a run of the Batcher loop is cut off; a run with a
\* positive batch size needs at most MaxLen iterations and never gets there
IterCap == MaxLen + MaxIds + 2

VARIABLES
    \* ---- _split_acc_nums_into_batch (SpecBatcher) ----
    b_pc,             \* "idle" | "call" | "loop" | "returned" | "cut"
    acc_nums,         \* argument: [kind |-> "set" | "seq", val |-> set or sequence]
    batch_size,       \* argument
    acc_num_list,     \* local, line 43
    acc_num_batches,  \* local, line 44
    extract_start,    \* local, line 46
    \* ---- process-wide configuration ----
    email,            \* Entrez.email: "None" or "addr"
    reconfigs,        \* number of set_entrez_email calls so far
    email_ever_set,   \* history: Entrez.email has held an address at some time
    \* ---- one invocation of a search operation (Spec) ----
    pc,               \* "idle", "returned", "raised", or the place reached:
                      \* "post", "post_loop", "fetch_hist", "fetch_hist_loop",
                      \* "fetch", "fetch_loop", "parse_page", "parse_direct"
    op,               \* the entry operation invoked
    search_acc_nums,  \* argument acc_nums of _search_entrez
    epost_batch_size, \* argument epost_batch_size of _search_entrez
    entrez_parser,    \* the parser sink
    bulk_batches,     \* _split_acc_nums_into_batch(non_wgs_acc_nums, epost_batch_size)
    wgs_batches,      \* _split_acc_nums_into_batch(wgs_acc_nums, EFETCH_BATCH_SIZE)
    b,                \* index of the current bulk batch (0: none)
    d,                \* index of the current direct batch (0: none)
    session,          \* (efetch_query_key, web_env) in use
    fetch_start,      \* local of _search_entrez / _search_entrez_hist
    fetch_iter,       \* local
    i,                \* local
    attempt,          \* local of the remote call in progress
    handle,           \* value returned by the last fetch
    \* ---- observation of the run ----
    tries,            \* network requests issued by the remote call in progress
    sleeps,           \* retry sleeps (20s) taken by the remote call in progress
    resp,             \* answer to the last network request
    last_call,        \* how the last finished remote call ended
    last_req,         \* the last network request issued
    netCalls,         \* network requests issued in total
    posted,           \* identifier batches of the posts that succeeded, in order
    paged,            \* the paginated fetches that succeeded, in order
    fetched,          \* identifier batches of the direct fetches that succeeded, in order
    parseCalls,       \* calls of entrez_parser.parse in total
    errlog,           \* messages given to ProcLog.log_exec_error
    pauses,           \* inter-batch pauses taken (seconds)
    stop,             \* why the orchestrator returned
    retval            \* what the entry operation returned to its caller

bvars == <<b_pc, acc_nums, batch_size, acc_num_list, acc_num_batches, extract_start>>
cfgvars == <<email, reconfigs, email_ever_set>>
inputs == <<op, search_acc_nums, epost_batch_size, bulk_batches, wgs_batches>>
flow == <<pc, b, d, stop, retval, pauses>>
fetchv == <<fetch_start, fetch_iter, i>>
callv == <<attempt, tries, sleeps>>
netv == <<resp, last_req, netCalls>>
sentv == <<posted, paged, fetched>>
runvars == <<pc, op, search_acc_nums, epost_batch_size, entrez_parser, bulk_batches,
             wgs_batches, b, d, session, fetch_start, fetch_iter, i, attempt, handle>>
obsvars == <<tries, sleeps, resp, last_call, last_req, netCalls, posted, paged, fetched,
             parseCalls, errlog, pauses, stop, retval>>
vars == <<bvars, cfgvars, runvars, obsvars>>

(***************************************************************************)
(* Python built-ins used by the code.                                      *)
(***************************************************************************)
Min(x, y) == IF x <= y THEN x ELSE y

\* a slice bound as Python normalises it for a list of n elements
PySliceIndex(k, n) ==
    IF k < 0 THEN (IF k + n < 0 THEN 0 ELSE k + n)
    ELSE IF k > n THEN n ELSE k

\* list[s:e]
PySlice(list, s, e) ==
    LET n  == Len(list)
        lo == PySliceIndex(s, n)
        hi == PySliceIndex(e, n)
    IN  IF lo < hi THEN SubSeq(list, lo + 1, hi) ELSE <<>>

Range(s) == {s[k] : k \in DOMAIN s}

\* set(acc_nums) unless acc_nums already is a set (lines 38-41)
ToSet(a) == IF a.kind = "set" THEN a.val ELSE Range(a.val)

\* the members of S between lo and hi, in increasing order
RECURSIVE EnumRange(_, _, _)
EnumRange(S, lo, hi) ==
    IF lo > hi THEN <<>>
    ELSE IF lo = hi THEN (IF lo \in S THEN <<lo>> ELSE <<>>)
    ELSE LET mid == (lo + hi) \div 2
         IN  EnumRange(S, lo, mid) \o EnumRange(S, mid + 1, hi)

\* one enumeration of a set of integers
Enum(S) ==
    IF S = {} THEN <<>>
    ELSE EnumRange(S, CHOOSE x \in S : \A y \in S : x <= y,
                      CHOOSE x \in S : \A y \in S : x >= y)

Perms(S) ==
    {f \in [1..Cardinality(S) -> S] :
        \A j, k \in 1..Cardinality(S) : j # k => f[j] # f[k]}

\* list(acc_num_set) (line 43): Python fixes no iteration order for a set.
\* Every order is taken for a set of at most MaxIds elements, and one
\* enumeration for a larger one.
ListOrders(S) ==
    IF Cardinality(S) <= MaxIds THEN Perms(S) ELSE {Enum(S)}

(***************************************************************************)
(* _split_acc_nums_into_batch, lines 37-53.                                *)
(***************************************************************************)
\* line 49
ExtractEnd(start, size, count) == Min(start + size, count)

BatchSliceInclusive(list, start, end) == PySlice(list, start, end + 1)

\* line 50: acc_num_list[extract_start:extract_end]
BatchSlice(list, start, end) == PySlice(list, start, end)

\* the while loop of lines 48-51 run to its end, for a positive batch size
RECURSIVE BatchesFrom(_, _, _)
BatchesFrom(list, size, start) ==
    IF start < Len(list)
    THEN LET end == ExtractEnd(start, size, Len(list))
         IN  <<BatchSlice(list, start, end)>> \o BatchesFrom(list, size, end)
    ELSE <<>>

\* the batch lists the function may return for a set S and a positive size
split_acc_nums_into_batch(S, size) ==
    {BatchesFrom(l, size, 0) : l \in ListOrders(S)}

Ids == 1..MaxIds

SeqsUpTo(S, n) == UNION {[1..k -> S] : k \in 0..n}

BatcherInputs ==
    {[kind |-> "set", val |-> S] : S \in SUBSET Ids}
    \cup {[kind |-> "seq", val |-> s] : s \in SeqsUpTo(Ids, MaxLen)}

\* lines 38-46
BatcherEnter ==
    /\ b_pc = "call"
    /\ \E l \in ListOrders(ToSet(acc_nums)) : acc_num_list' = l
    /\ acc_num_batches' = <<>>
    /\ extract_start' = 0
    /\ b_pc' = "loop"
    /\ UNCHANGED <<acc_nums, batch_size>>

\* one iteration of the while loop, lines 48-51
BatcherIterate ==
    /\ b_pc = "loop"
    /\ extract_start < Len(acc_num_list)
    /\ Len(acc_num_batches) < IterCap
    /\ LET extract_end == ExtractEnd(extract_start, batch_size, Len(acc_num_list))
       IN  /\ acc_num_batches' =
                 Append(acc_num_batches, BatchSlice(acc_num_list, extract_start, extract_end))
           /\ extract_start' = extract_end
    /\ UNCHANGED <<b_pc, acc_nums, batch_size, acc_num_list>>

\* the loop condition fails, line 53
BatcherReturn ==
    /\ b_pc = "loop"
    /\ ~(extract_start < Len(acc_num_list))
    /\ b_pc' = "returned"
    /\ UNCHANGED <<acc_nums, batch_size, acc_num_list, acc_num_batches, extract_start>>

\* the model stops following a run that is still looping after IterCap iterations
BatcherCut ==
    /\ b_pc = "loop"
    /\ extract_start < Len(acc_num_list)
    /\ Len(acc_num_batches) >= IterCap
    /\ b_pc' = "cut"
    /\ UNCHANGED <<acc_nums, batch_size, acc_num_list, acc_num_batches, extract_start>>

(***************************************************************************)
(* Values of the variables of a part of the model that is not running.     *)
(***************************************************************************)
NoSink == [variant |-> "none", has_flag |-> FALSE, is_parse_complete |-> FALSE, parsed |-> <<>>]
\* a query key or web environment of 0 stands for None
NoSession == [query_key |-> 0, web_env |-> 0]
NoHandle == [kind |-> "None", batch |-> 0, retstart |-> 0]
NoResp == [kind |-> "none", code |-> 0]
NoCall == [call |-> "none", tries |-> 0, sleeps |-> 0, outcome |-> "none"]
NoReq == [call |-> "none", ids |-> <<>>, session |-> NoSession, retstart |-> 0]
NoRet == [components |-> {}, result |-> <<>>, is_parse_complete |-> FALSE]

BatcherIdle ==
    /\ b_pc = "idle"
    /\ acc_nums = [kind |-> "set", val |-> {}]
    /\ batch_size = EFETCH_BATCH_SIZE
    /\ acc_num_list = <<>>
    /\ acc_num_batches = <<>>
    /\ extract_start = 0

RunIdle ==
    /\ pc = "idle"
    /\ op = "none"
    /\ search_acc_nums = {}
    /\ epost_batch_size = EPOST_SEQ_BATCH_SIZE
    /\ entrez_parser = NoSink
    /\ bulk_batches = <<>>
    /\ wgs_batches = <<>>
    /\ b = 0
    /\ d = 0
    /\ session = NoSession
    /\ fetch_start = 0
    /\ fetch_iter = 0
    /\ i = 0
    /\ attempt = 0
    /\ handle = NoHandle
    /\ tries = 0
    /\ sleeps = 0
    /\ resp = NoResp
    /\ last_call = NoCall
    /\ last_req = NoReq
    /\ netCalls = 0
    /\ posted = <<>>
    /\ paged = <<>>
    /\ fetched = <<>>
    /\ parseCalls = 0
    /\ errlog = <<>>
    /\ pauses = <<>>
    /\ stop = "none"
    /\ retval = NoRet

\* Entrez.email is None until set_entrez_email is called (Bio.Entrez default)
ConfigInit ==
    /\ email = "None"
    /\ reconfigs = 0
    /\ email_ever_set = FALSE

(***************************************************************************)
(* SpecBatcher: _split_acc_nums_into_batch on every input within the       *)
(* bounds, batch sizes -NegB..MaxB.                                        *)
(***************************************************************************)
InitBatcher ==
    /\ b_pc = "call"
    /\ acc_nums \in BatcherInputs
    /\ batch_size \in (0 - NegB)..MaxB
    /\ acc_num_list = <<>>
    /\ acc_num_batches = <<>>
    /\ extract_start = 0
    /\ ConfigInit
    /\ RunIdle

NextBatcher ==
    \/ BatcherEnter /\ UNCHANGED <<cfgvars, runvars, obsvars>>
    \/ BatcherIterate /\ UNCHANGED <<cfgvars, runvars, obsvars>>
    \/ BatcherReturn /\ UNCHANGED <<cfgvars, runvars, obsvars>>
    \/ BatcherCut /\ UNCHANGED <<cfgvars, runvars, obsvars>>

SpecBatcher == InitBatcher /\ [][NextBatcher]_vars

(***************************************************************************)
(* Claims about the Batcher.                                               *)
(***************************************************************************)
NoDuplicates(s) == Cardinality(Range(s)) = Len(s)

\* C1: for a batch size B > 0 the batches returned are pairwise disjoint,
\* their union is the deduplicated input, every batch is non-empty, without
\* repetition and of length <= B, every batch but the last has exactly B
\* elements, an empty input gives an empty batch list, and the loop ends
\* (the run is never cut off).
C1_BatchingPartition ==
    /\ (batch_size > 0 => b_pc # "cut")
    /\ (b_pc = "returned" /\ batch_size > 0) =>
        LET bs == acc_num_batches
            n  == Len(bs)
            S  == ToSet(acc_nums)
        IN  /\ \A j, k \in 1..n : j # k => Range(bs[j]) \cap Range(bs[k]) = {}
            /\ UNION {Range(bs[j]) : j \in 1..n} = S
            /\ \A j \in 1..n :
                  /\ Len(bs[j]) >= 1
                  /\ Len(bs[j]) <= batch_size
                  /\ NoDuplicates(bs[j])
            /\ \A j \in 1..(n - 1) : Len(bs[j]) = batch_size
            /\ (S = {} => bs = <<>>)

\* C1 witness: a sequence with a repeated identifier was split into a full
\* batch followed by a short last batch.
C1_Witness ==
    /\ b_pc = "returned"
    /\ acc_nums.kind = "seq"
    /\ ~NoDuplicates(acc_nums.val)
    /\ batch_size = 2
    /\ Len(acc_num_batches) = 2
    /\ Len(acc_num_batches[1]) = 2
    /\ Len(acc_num_batches[2]) = 1

\* C10: given a non-positive batch size and a non-empty identifier
\* collection the Batcher rejects the input: it neither returns batches nor
\* is it still looping after IterCap iterations.
C10_RejectsNonPositive ==
    (batch_size <= 0 /\ ToSet(acc_nums) # {}) => b_pc \notin {"returned", "cut"}

\* With a non-positive batch size the loop makes no progress: extract_start
\* never moves forward, so the loop condition of line 48 stays true.
BatcherNoProgress ==
    [][(b_pc = "loop" /\ batch_size <= 0) => extract_start' <= extract_start]_vars

(***************************************************************************)
(* The search operations.                                                  *)
(***************************************************************************)
CdsOps == {"search_target_cds_by_nt_acc_num", "search_target_cds_by_nt_acc_num_hist"}

PublicOps ==
    {"search_target_cds_by_nt_acc_num", "search_protein_info", "search_protein_seqs",
     "search_nucleotide_seq_status", "search_protein_seq_status"}

HistOps ==
    {"search_target_cds_by_nt_acc_num_hist", "search_protein_info_hist",
     "search_protein_seqs_hist"}

\* _search_entrez called by itself, with a parser and a post batch size of the caller
PrivateOps == {"_search_entrez"}

\* the parser each operation constructs (lines 220, 234, 248, 263, 321, 329, 337)
SinkVariant(o) ==
    CASE o \in CdsOps -> "FeatTblCDSParser"
      [] o \in {"search_protein_info", "search_protein_info_hist"} -> "ProteinXMLParser"
      [] o \in {"search_protein_seqs", "search_protein_seqs_hist"} -> "ProteinSeqParser"
      [] o \in {"search_nucleotide_seq_status", "search_protein_seq_status"} -> "DocSummaryParser"
      [] OTHER -> "caller's parser"

\* The parsers are defined in EntrezRecordParser, outside this file. The
\* CDS parser exposes is_parse_complete (lines 224 and 325 read it); whether
\* another parser does, and the flag's value after construction, are open.
NewSinks(o) ==
    {[variant |-> SinkVariant(o), has_flag |-> h, is_parse_complete |-> f, parsed |-> <<>>] :
        h \in (IF o \in CdsOps THEN {TRUE} ELSE BOOLEAN), f \in BOOLEAN}
    \ {[variant |-> SinkVariant(o), has_flag |-> FALSE, is_parse_complete |-> TRUE, parsed |-> <<>>]}

\* epost_batch_size each operation passes to _search_entrez (lines 171, 221)
PostBatchSizes(o) ==
    CASE o = "search_target_cds_by_nt_acc_num" -> {EPOST_FT_BATCH_SIZE}
      [] o \in PrivateOps -> {EPOST_SEQ_BATCH_SIZE, EFETCH_BATCH_SIZE + 1}
      [] OTHER -> {EPOST_SEQ_BATCH_SIZE}

ReturnsFlagAlsoProtein(o) ==
    o \in CdsOps \cup {"search_protein_info", "search_protein_seqs"}

\* the operations whose return statement includes is_parse_complete
\* (lines 223-224 and 324-325; not lines 238, 252, 267, 333, 341)
ReturnsFlag(o) == o \in CdsOps

\* what the operation hands back once the orchestrator has returned
ReturnValue(o, sink) ==
    IF o \in PrivateOps
    THEN [components |-> {}, result |-> <<>>, is_parse_complete |-> FALSE]
    ELSE IF ReturnsFlag(o)
    THEN [components |-> {"result", "is_parse_complete"}, result |-> sink.parsed,
          is_parse_complete |-> sink.is_parse_complete]
    ELSE [components |-> {"result"}, result |-> sink.parsed, is_parse_complete |-> FALSE]

(***************************************************************************)
(* Identifiers of the orchestrator are integers: the negative ones stand   *)
(* for the WGS family. split_wgs_acc_nums is defined in Utils, outside     *)
(* this file; it is taken to be the total partition the specification      *)
(* describes.                                                              *)
(***************************************************************************)
IsWgs(id) == id < 0

split_wgs_acc_nums(S) ==
    [wgs |-> {x \in S : IsWgs(x)}, non_wgs |-> {x \in S : ~IsWgs(x)}]

Sizes == {k * EFETCH_BATCH_SIZE + r : k \in 0..MaxFull, r \in {0, 1}}

Queries == {(1..n) \cup {0 - j : j \in 1..m} : n \in Sizes, m \in Sizes}

FetchIterPlusOne(count) == count \div EFETCH_BATCH_SIZE + 1

\* line 183 and line 302
FetchIter(count) == (count + EFETCH_BATCH_SIZE - 1) \div EFETCH_BATCH_SIZE

(***************************************************************************)
(* The remote service.                                                     *)
(***************************************************************************)
HttpErrorCodes == {399, 400, 599, 600}

Responses ==
    {[kind |-> "ok", code |-> 200], [kind |-> "URLError", code |-> 0]}
    \cup {[kind |-> "HTTPError", code |-> c] : c \in HttpErrorCodes}

RetriableStrict(code) == 400 < code /\ code < 599

\* lines 75, 107, 142
Retriable(code) == 400 <= code /\ code <= 599

ClassifyNoFatalUrl(r) ==
    IF r.kind = "ok" THEN "ok"
    ELSE IF r.kind = "URLError" \/ Retriable(r.code) THEN "transient"
    ELSE "fatal"

\* the branch of the try statement an answer takes (lines 70-84, 101-116, 137-151)
Classify(r) ==
    IF r.kind = "ok" THEN "ok"
    ELSE IF r.kind = "HTTPError" /\ Retriable(r.code) THEN "transient"
    ELSE "fatal"

KeepAttempt(prev) == prev

\* attempt = 0 on entering a remote call (lines 68, 99, 135)
InitialAttempt(prev) == 0

LoopConditionInclusive(a) == a <= MAX_ATTEMPT

\* the loop condition of lines 69, 100, 136
LoopCondition(a) == a < MAX_ATTEMPT

(***************************************************************************)
(* Control flow of _search_entrez and _search_entrez_hist between two      *)
(* remote calls. o is the operation, sink the parser after the step and p  *)
(* the pauses taken after the step.                                        *)
(***************************************************************************)
\* the orchestrator returns and the entry operation returns to its caller
Return(o, reason, sink, p) ==
    /\ pc' = "returned"
    /\ stop' = reason
    /\ retval' = ReturnValue(o, sink)
    /\ pauses' = p
    /\ UNCHANGED <<b, d>>

NextDirectButLast(o, wb, k, sink, p) ==
    IF k < Len(wb)
    THEN /\ pc' = "fetch"
         /\ d' = k
         /\ pauses' = p
         /\ UNCHANGED <<b, stop, retval>>
    ELSE Return(o, "done", sink, p)

\* the for loop of line 200 reaches direct batch k
NextDirect(o, wb, k, sink, p) ==
    IF k <= Len(wb)
    THEN /\ pc' = "fetch"
         /\ d' = k
         /\ pauses' = p
         /\ UNCHANGED <<b, stop, retval>>
    ELSE Return(o, "done", sink, p)

\* the for loop of line 174 reaches bulk batch k
NextBulk(o, bb, wb, k, sink, p) ==
    IF k <= Len(bb)
    THEN /\ pc' = "post"
         /\ b' = k
         /\ pauses' = p
         /\ UNCHANGED <<d, stop, retval>>
    ELSE NextDirect(o, wb, 1, sink, p)

NextPageEarly(o, iter, idx, sink) ==
    IF idx + 1 < iter
    THEN /\ pc' = "fetch_hist"
         /\ UNCHANGED <<b, d, stop, retval, pauses>>
    ELSE IF o \in HistOps
         THEN Return(o, "done", sink, Append(pauses, 3))
         ELSE NextBulk(o, bulk_batches, wgs_batches, b + 1, sink, Append(pauses, 3))

\* the while loop of line 186 (line 305) with i = idx, and what follows it:
\* time.sleep(3), then the next bulk batch (line 198) or the return (line 317)
NextPage(o, iter, idx, sink) ==
    IF idx < iter
    THEN /\ pc' = "fetch_hist"
         /\ UNCHANGED <<b, d, stop, retval, pauses>>
    ELSE IF o \in HistOps
         THEN Return(o, "done", sink, Append(pauses, 3))
         ELSE NextBulk(o, bulk_batches, wgs_batches, b + 1, sink, Append(pauses, 3))

(***************************************************************************)
(* set_entrez_email, lines 25-26. It may be called at any time before the  *)
(* operation has returned, with an address or with None.                   *)
(***************************************************************************)
set_entrez_email ==
    /\ pc \notin {"returned", "raised"}
    /\ reconfigs < MaxReconfig
    /\ \E v \in {"None", "addr"} :
          /\ email' = v
          /\ email_ever_set' = (email_ever_set \/ v = "addr")
    /\ reconfigs' = reconfigs + 1
    /\ UNCHANGED <<bvars, runvars, obsvars>>

(***************************************************************************)
(* Entry of the operations built on _search_entrez (lines 170-174,         *)
(* 219-221, 233-236, 247-250, 262-265, 276-277, 286-287).                  *)
(***************************************************************************)
search ==
    /\ pc = "idle"
    /\ \E o \in PublicOps \cup PrivateOps, q \in Queries :
       \E size \in PostBatchSizes(o), sink \in NewSinks(o) :
          LET parts == split_wgs_acc_nums(q)
          IN  \E bb \in split_acc_nums_into_batch(parts.non_wgs, size),
                 wb \in split_acc_nums_into_batch(parts.wgs, EFETCH_BATCH_SIZE) :
                 /\ op' = o
                 /\ search_acc_nums' = q
                 /\ epost_batch_size' = size
                 /\ entrez_parser' = sink
                 /\ bulk_batches' = bb
                 /\ wgs_batches' = wb
                 /\ NextBulk(o, bb, wb, 1, sink, <<>>)
    /\ UNCHANGED <<bvars, cfgvars, fetchv, callv, netv, sentv, session, handle,
                   last_call, parseCalls, errlog>>

\* the session handle the caller of a *_hist operation passes in
CallerSession == [query_key |-> 0 - 1, web_env |-> 0 - 1]

(***************************************************************************)
(* Entry of the operations built on _search_entrez_hist (lines 299-305,    *)
(* 320-322, 328-331, 336-339).                                             *)
(***************************************************************************)
search_hist ==
    /\ pc = "idle"
    /\ \E o \in HistOps, query_item_count \in Sizes :
       \E sink \in NewSinks(o) :
          /\ op' = o
          /\ entrez_parser' = sink
          /\ session' = CallerSession
          /\ fetch_start' = 0
          /\ fetch_iter' = FetchIter(query_item_count)
          /\ i' = 0
          /\ NextPage(o, FetchIter(query_item_count), 0, sink)
    /\ UNCHANGED <<bvars, cfgvars, search_acc_nums, epost_batch_size, bulk_batches,
                   wgs_batches, callv, netv, sentv, handle, last_call, parseCalls, errlog>>

(***************************************************************************)
(* Parts shared by the three remote calls, whose retry loops are the same  *)
(* text (lines 69-88, 100-120, 136-155).                                   *)
(***************************************************************************)
\* the remote call is entered: attempt = 0
EnterLoop(loop) ==
    /\ pc' = loop
    /\ attempt' = InitialAttempt(attempt)
    /\ tries' = 0
    /\ sleeps' = 0
    /\ resp' = NoResp
    /\ last_call' = NoCall
    /\ UNCHANGED <<bvars, cfgvars, inputs, entrez_parser, b, d, stop, retval, pauses,
                   fetchv, session, handle, last_req, netCalls, sentv, parseCalls, errlog>>

\* one network request goes out and r comes back
Request(r, req) ==
    /\ netCalls' = netCalls + 1
    /\ tries' = tries + 1
    /\ resp' = r
    /\ last_req' = req

\* HTTPError with a code in 400..599: time.sleep(20), attempt += 1, continue
Transient ==
    /\ sleeps' = sleeps + 1
    /\ attempt' = attempt + 1
    /\ UNCHANGED <<flow, fetchv, sentv, session, handle, last_call, errlog, entrez_parser>>

\* the call ends in a failure that makes the orchestrator return (lines 178, 189, 203)
Failed(call, reason, msg, t) ==
    /\ errlog' = Append(errlog, msg)
    /\ last_call' = [call |-> call, tries |-> t, sleeps |-> sleeps, outcome |-> reason]
    /\ Return(op, reason, entrez_parser, pauses)
    /\ UNCHANGED <<attempt, sleeps, fetchv, sentv, session, handle, entrez_parser>>

\* lines 86-88, 118-120, 153-155: the loop has ended without a return
Exhausted(call) ==
    /\ Failed(call, "exhausted",
              IF attempt = MAX_ATTEMPT THEN "Attempted 3 times and failed" ELSE "no message",
              tries)
    /\ UNCHANGED <<tries, netv>>

(***************************************************************************)
(* _entrez_post, lines 63-88, and lines 176-186 of _search_entrez.         *)
(* EPostParser.parse, outside this file, is taken to give a query key and  *)
(* a web environment for every answer it is handed; the pair given for     *)
(* bulk batch b is written b.                                              *)
(***************************************************************************)
KeepFirstSession(prev, k) ==
    IF prev = NoSession THEN [query_key |-> k, web_env |-> k] ELSE prev

\* line 176: efetch_query_key and web_env are assigned what the post of bulk
\* batch k returned, whatever they held before
AssignSession(prev, k) == [query_key |-> k, web_env |-> k]

entrez_post_enter ==
    /\ pc = "post"
    /\ IF email = "None"
       THEN /\ Failed("epost", "config", "Email address for Entrez is not set", 0)
            /\ tries' = 0
            /\ resp' = NoResp
            /\ UNCHANGED <<bvars, cfgvars, inputs, last_req, netCalls, parseCalls>>
       ELSE EnterLoop("post_loop")

entrez_post ==
    /\ pc = "post_loop"
    /\ IF LoopCondition(attempt)
       THEN \E r \in Responses :
              /\ Request(r, [call |-> "epost", ids |-> bulk_batches[b],
                             session |-> NoSession, retstart |-> 0])
              /\ CASE Classify(r) = "ok" ->
                        /\ session' = AssignSession(session, b)
                        /\ posted' = Append(posted, bulk_batches[b])
                        /\ UNCHANGED <<paged, fetched>>
                        /\ last_call' = [call |-> "epost", tries |-> tries + 1,
                                         sleeps |-> sleeps, outcome |-> "ok"]
                        /\ fetch_start' = 0
                        /\ fetch_iter' = FetchIter(Len(bulk_batches[b]))
                        /\ i' = 0
                        /\ NextPage(op, FetchIter(Len(bulk_batches[b])), 0, entrez_parser)
                        /\ UNCHANGED <<attempt, sleeps, handle, errlog, entrez_parser>>
                   [] Classify(r) = "transient" -> Transient
                   [] OTHER -> Failed("epost", "fatal", "epost(): reason", tries + 1)
       ELSE Exhausted("epost")
    /\ UNCHANGED <<bvars, cfgvars, inputs, parseCalls>>

(***************************************************************************)
(* _entrez_fetch_hist, lines 98-120, and lines 187-189 (306-308).          *)
(***************************************************************************)
entrez_fetch_hist_enter ==
    /\ pc = "fetch_hist"
    /\ EnterLoop("fetch_hist_loop")

entrez_fetch_hist ==
    /\ pc = "fetch_hist_loop"
    /\ IF LoopCondition(attempt)
       THEN \E r \in Responses :
              /\ Request(r, [call |-> "efetch_hist", ids |-> <<>>,
                             session |-> session, retstart |-> fetch_start])
              /\ CASE Classify(r) = "ok" ->
                        /\ handle' = [kind |-> "page", batch |-> b, retstart |-> fetch_start]
                        /\ last_call' = [call |-> "efetch_hist", tries |-> tries + 1,
                                         sleeps |-> sleeps, outcome |-> "ok"]
                        /\ pc' = "parse_page"
                        /\ paged' = Append(paged, [session |-> session, retstart |-> fetch_start,
                                                   batch |-> b, posts |-> Len(posted)])
                        /\ UNCHANGED <<posted, fetched>>
                        /\ UNCHANGED <<b, d, stop, retval, pauses, fetchv, attempt, sleeps,
                                       session, errlog, entrez_parser>>
                   [] Classify(r) = "transient" -> Transient
                   [] OTHER -> Failed("efetch_hist", "fatal", "efetch(): reason", tries + 1)
       ELSE Exhausted("efetch_hist")
    /\ UNCHANGED <<bvars, cfgvars, inputs, parseCalls>>

(***************************************************************************)
(* _entrez_fetch, lines 130-155, and lines 201-203.                        *)
(***************************************************************************)
\* what line 133 returns: the 3-tuple (None, None, None), which is not None
TupleOfNone == [kind |-> "tuple of None", batch |-> 0, retstart |-> 0]

entrez_fetch_enter ==
    /\ pc = "fetch"
    /\ IF email = "None"
       THEN /\ errlog' = Append(errlog, "Email address for Entrez is not set")
            /\ last_call' = [call |-> "efetch", tries |-> 0, sleeps |-> 0, outcome |-> "config"]
            /\ handle' = TupleOfNone
            /\ pc' = "parse_direct"
            /\ tries' = 0
            /\ resp' = NoResp
            /\ UNCHANGED <<bvars, cfgvars, inputs, b, d, stop, retval, pauses, fetchv,
                           attempt, sleeps, session, entrez_parser, last_req, netCalls,
                           sentv, parseCalls>>
       ELSE EnterLoop("fetch_loop")

entrez_fetch ==
    /\ pc = "fetch_loop"
    /\ IF LoopCondition(attempt)
       THEN \E r \in Responses :
              /\ Request(r, [call |-> "efetch", ids |-> wgs_batches[d],
                             session |-> NoSession, retstart |-> 0])
              /\ CASE Classify(r) = "ok" ->
                        /\ handle' = [kind |-> "direct", batch |-> d, retstart |-> 0]
                        /\ last_call' = [call |-> "efetch", tries |-> tries + 1,
                                         sleeps |-> sleeps, outcome |-> "ok"]
                        /\ pc' = "parse_direct"
                        /\ fetched' = Append(fetched, wgs_batches[d])
                        /\ UNCHANGED <<posted, paged>>
                        /\ UNCHANGED <<b, d, stop, retval, pauses, fetchv, attempt, sleeps,
                                       session, errlog, entrez_parser>>
                   [] Classify(r) = "transient" -> Transient
                   [] OTHER -> Failed("efetch", "fatal", "efetch(): reason", tries + 1)
       ELSE Exhausted("efetch")
    /\ UNCHANGED <<bvars, cfgvars, inputs, parseCalls>>

(***************************************************************************)
(* entrez_parser.parse(handle). The parsers are defined outside this       *)
(* file: a call appends the payload to what the sink has accumulated and   *)
(* leaves is_parse_complete, where the sink has it, true or false. Given   *)
(* the tuple of line 133 instead of a handle the call may also raise.      *)
(***************************************************************************)
ParseOutcomes(sink, h) ==
    {[raised |-> FALSE,
      sink |-> [sink EXCEPT !.parsed = Append(@, h), !.is_parse_complete = f]] :
        f \in (IF sink.has_flag THEN BOOLEAN ELSE {FALSE})}
    \cup (IF h = TupleOfNone THEN {[raised |-> TRUE, sink |-> sink]} ELSE {})

IncompleteNoHasattr(sink) == ~sink.is_parse_complete

IncompleteInverted(sink) == sink.has_flag /\ sink.is_parse_complete

\* lines 192, 206, 311: hasattr(entrez_parser, 'is_parse_complete') and not
\* entrez_parser.is_parse_complete
Incomplete(sink) == sink.has_flag /\ ~sink.is_parse_complete

\* lines 191-198 of _search_entrez and 310-317 of _search_entrez_hist
parse_page ==
    /\ pc = "parse_page"
    /\ parseCalls' = parseCalls + 1
    /\ \E out \in {x \in ParseOutcomes(entrez_parser, handle) : ~x.raised} :
          /\ entrez_parser' = out.sink
          /\ IF Incomplete(out.sink)
             THEN /\ Return(op, "incomplete", out.sink, pauses)
                  /\ UNCHANGED fetchv
             ELSE /\ fetch_start' = fetch_start + EFETCH_BATCH_SIZE
                  /\ i' = i + 1
                  /\ fetch_iter' = fetch_iter
                  /\ NextPage(op, fetch_iter, i + 1, out.sink)
    /\ UNCHANGED <<bvars, cfgvars, inputs, callv, netv, sentv, session, handle, last_call,
                   errlog>>

\* lines 205-209 of _search_entrez
parse_direct ==
    /\ pc = "parse_direct"
    /\ parseCalls' = parseCalls + 1
    /\ \E out \in ParseOutcomes(entrez_parser, handle) :
          /\ entrez_parser' = out.sink
          /\ IF out.raised
             THEN /\ pc' = "raised"
                  /\ stop' = "exception"
                  /\ UNCHANGED <<b, d, retval, pauses>>
             ELSE IF Incomplete(out.sink)
             THEN Return(op, "incomplete", out.sink, pauses)
             ELSE NextDirect(op, wgs_batches, d + 1, out.sink, Append(pauses, 5))
    /\ UNCHANGED <<bvars, cfgvars, inputs, fetchv, callv, netv, sentv, session, handle,
                   last_call, errlog>>

(***************************************************************************)
(* Spec: one invocation of one search operation.                           *)
(***************************************************************************)
Init ==
    /\ BatcherIdle
    /\ ConfigInit
    /\ RunIdle

Next ==
    \/ set_entrez_email
    \/ search
    \/ search_hist
    \/ entrez_post_enter
    \/ entrez_post
    \/ entrez_fetch_hist_enter
    \/ entrez_fetch_hist
    \/ entrez_fetch_enter
    \/ entrez_fetch
    \/ parse_page
    \/ parse_direct

Spec == Init /\ [][Next]_vars

(***************************************************************************)
(* FairSpec: the same, for an operation that keeps running once it has     *)
(* been invoked. The code is sequential and single-threaded: a started     *)
(* operation executes its next statement, every request is answered or     *)
(* fails, every sleep ends and every parse call ends. Nothing obliges a    *)
(* caller to invoke an operation or to call set_entrez_email.              *)
(***************************************************************************)
RunStep ==
    \/ entrez_post_enter
    \/ entrez_post
    \/ entrez_fetch_hist_enter
    \/ entrez_fetch_hist
    \/ entrez_fetch_enter
    \/ entrez_fetch
    \/ parse_page
    \/ parse_direct

FairSpec == Spec /\ WF_vars(RunStep)

(***************************************************************************)
(* Claims about the remote calls and the orchestrator.                     *)
(***************************************************************************)
InLoop == pc \in {"post_loop", "fetch_hist_loop", "fetch_loop"}

\* an answer that is a non-retriable protocol error or a connection-level error
IsFatalAnswer(r) ==
    \/ r.kind = "URLError"
    \/ r.kind = "HTTPError" /\ (r.code < 400 \/ r.code > 599)

\* C2: every remote call starts with an attempt counter of zero whatever
\* earlier calls did; no call issues more than 3 requests; a call ends in
\* the exhausted outcome only after exactly 3 requests that all failed
\* transiently; and a call whose requests so far all failed transiently
\* does not end before its third request and ends exhausted right after it.
C2_RetryBound ==
    /\ [](/\ tries <= MAX_ATTEMPT
          /\ (InLoop /\ tries = 0) => attempt = 0
          /\ last_call.outcome = "exhausted" =>
                (last_call.tries = MAX_ATTEMPT /\ last_call.sleeps = MAX_ATTEMPT))
    /\ [][(InLoop /\ sleeps = tries) =>
            IF tries < MAX_ATTEMPT
            THEN last_call'.outcome # "exhausted"
            ELSE /\ netCalls' = netCalls
                 /\ (last_call'.outcome = "exhausted" \/ UNCHANGED <<pc, last_call>>)]_vars

\* C2 witness: the page fetch of a posted batch was given up after 3
\* requests, after a post that itself needed a retry.
C2_Witness ==
    /\ last_call.call = "efetch_hist"
    /\ last_call.outcome = "exhausted"
    /\ last_call.tries = 3
    /\ b = 1
    /\ netCalls = 5

\* C3 as claimed: a call that ends in the fatal-failure outcome was
\* attempted exactly once, with no retry sleep.
C3_FatalAttemptedOnce ==
    last_call.outcome = "fatal" => (last_call.tries = 1 /\ last_call.sleeps = 0)

\* C3 as amended: a fatal answer ends the call and the orchestrator at
\* once (no sleep and no request follows it); the call was attempted once
\* more than it slept after transient failures, 1 to 3 times in all, and
\* exactly once when the fatal answer was its first.
C3_FatalEndsCall ==
    /\ IsFatalAnswer(resp) =>
          /\ pc = "returned"
          /\ last_call.outcome = "fatal"
          /\ last_call.tries = tries
          /\ last_call.sleeps = sleeps
          /\ tries = sleeps + 1
          /\ tries <= MAX_ATTEMPT
    /\ last_call.outcome = "fatal" => IsFatalAnswer(resp)

\* C3 witness: a direct fetch ended fatally on its second request.
C3_Witness ==
    /\ last_call.call = "efetch"
    /\ last_call.outcome = "fatal"
    /\ last_call.tries = 2
    /\ last_call.sleeps = 1
    /\ resp.kind = "URLError"

\* C4: once a remote call of _search_entrez has ended in failure (fatal,
\* retries exhausted, or identity not configured) no request is issued and
\* parse is not called again.
C4_FailFast ==
    [][(op \in PublicOps \cup PrivateOps
        /\ last_call.outcome \in {"fatal", "exhausted", "config"})
       => (netCalls' = netCalls /\ parseCalls' = parseCalls)]_vars

\* C5: when caller identity has never been configured a public search
\* operation issues no request, never calls parse and raises nothing.
C5_NoIdentityNoWork ==
    (op \in PublicOps /\ ~email_ever_set) =>
        (netCalls = 0 /\ parseCalls = 0 /\ pc # "raised")

\* C6: no request is issued while caller identity is unset.
C6_IdentityCheckedPerCall ==
    [][netCalls' # netCalls => email = "addr"]_vars

\* C7: whenever, after a parse call, the sink exposes is_parse_complete
\* and it is false, the operation is over (no request and no parse call
\* can follow); when it returned for that reason the sink holds every
\* payload parsed, the last being the payload of that call, and this is
\* the result handed to the caller.
C7_ParseIncompleteStops ==
    /\ (parseCalls > 0 /\ entrez_parser.has_flag /\ ~entrez_parser.is_parse_complete) =>
          /\ pc \in {"returned", "raised"}
          /\ stop \in {"incomplete", "exception"}
    /\ stop = "incomplete" =>
          /\ pc = "returned"
          /\ entrez_parser.has_flag /\ ~entrez_parser.is_parse_complete
          /\ Len(entrez_parser.parsed) = parseCalls
          /\ entrez_parser.parsed[parseCalls] = handle
          /\ (op \notin PrivateOps => retval.result = entrez_parser.parsed)

\* C7 witness: the sink signalled incompleteness on the page of the first
\* of two bulk batches, with direct batches still to come.
C7_Witness ==
    /\ stop = "incomplete"
    /\ Len(bulk_batches) = 2
    /\ Len(wgs_batches) > 0
    /\ b = 1
    /\ parseCalls = 1
    /\ netCalls > 2

\* C8: the flag the CDS search returns is true only if every batch was
\* fetched and parsed. Stated for runs in which parse was called at least
\* once and only with fetched payloads: before the first call the flag
\* holds what the parser's constructor, outside this file, gave it, and a
\* call with the tuple of line 133 is the fault of C5.
C8_FlagTellsTotal ==
    (/\ pc = "returned"
     /\ op = "search_target_cds_by_nt_acc_num"
     /\ parseCalls > 0
     /\ \A k \in DOMAIN entrez_parser.parsed : entrez_parser.parsed[k] # TupleOfNone
     /\ retval.is_parse_complete)
    => stop = "done"

\* C9 as claimed: the CDS, protein-info and protein-sequence searches
\* return the result with the flag, the status searches without it.
C9_ThreeReturnFlag ==
    (pc = "returned" /\ op \in PublicOps) =>
        /\ "result" \in retval.components
        /\ ("is_parse_complete" \in retval.components <=>
               op \in {"search_target_cds_by_nt_acc_num", "search_protein_info",
                       "search_protein_seqs"})

\* C9 as amended: every public search returns the sink's accumulated
\* result; only the CDS search returns the completeness flag with it, and
\* the flag returned is the sink's.
C9_OnlyCdsReturnsFlag ==
    (pc = "returned" /\ op \in PublicOps) =>
        /\ "result" \in retval.components
        /\ retval.result = entrez_parser.parsed
        /\ ("is_parse_complete" \in retval.components <=>
               op = "search_target_cds_by_nt_acc_num")
        /\ (op = "search_target_cds_by_nt_acc_num" =>
               retval.is_parse_complete = entrez_parser.is_parse_complete)

\* C9 witness: the protein-sequence search returned after parsing payloads.
C9_Witness ==
    /\ pc = "returned"
    /\ op = "search_protein_seqs"
    /\ stop = "done"
    /\ parseCalls = 2
    /\ retval.components = {"result"}

(***************************************************************************)
(* Claims about the orchestrator _search_entrez.                           *)
(***************************************************************************)
\* the operation invoked runs _search_entrez (the others run _search_entrez_hist)
InSearchEntrez == op \in PublicOps \cup PrivateOps

\* the last request went out for the paginated fetch the orchestrator is at
AtPagedRequest ==
    /\ last_req.call = "efetch_hist"
    /\ \/ pc \in {"fetch_hist_loop", "parse_page"}
       \/ pc = "returned" /\ last_call.call = "efetch_hist"

\* C11: in _search_entrez every paginated fetch, failed attempts included, carries
\* the query key and web environment the most recent successful post returned;
\* that post sent the identifiers of the bulk batch whose pages are being fetched;
\* a direct fetch carries identifiers and no session handle.
C11_SessionHandle ==
    InSearchEntrez =>
        /\ \A k \in DOMAIN paged :
              /\ paged[k].posts = paged[k].batch
              /\ paged[k].posts \in DOMAIN posted
              /\ posted[paged[k].posts] = bulk_batches[paged[k].batch]
              /\ paged[k].session.query_key = paged[k].posts
              /\ paged[k].session.web_env = paged[k].posts
        /\ AtPagedRequest =>
              /\ Len(posted) = b
              /\ posted[b] = bulk_batches[b]
              /\ last_req.session.query_key = b
              /\ last_req.session.web_env = b
              /\ last_req.ids = <<>>
        /\ last_req.call = "efetch" =>
              /\ last_req.session = NoSession
              /\ last_req.ids # <<>>

\* pages of the second bulk batch have been fetched, and a direct batch after them
C11_Witness ==
    /\ InSearchEntrez
    /\ \E k \in DOMAIN paged : paged[k].batch = 2
    /\ Len(fetched) > 0

\* the identifiers of a sequence of batches, in the order they were sent
RECURSIVE Flatten(_)
Flatten(batches) ==
    IF batches = <<>> THEN <<>>
    ELSE Head(batches) \o Flatten(Tail(batches))

\* _search_entrez has returned from the end of its body and no remote call failed
FailureFreeRun ==
    /\ InSearchEntrez
    /\ pc = "returned"
    /\ stop = "done"
    /\ errlog = <<>>

BatchLens(batches) == [k \in DOMAIN batches |-> Len(batches[k])]

\* the examples of the claim, computed by the batching of lines 37-53 and the
\* page count of line 183
C12_Examples ==
    /\ BatchLens(BatchesFrom(Enum(1..250), 100, 0)) = <<100, 100, 50>>
    /\ BatchLens(BatchesFrom(Enum(1..3), 100, 0)) = <<3>>
    /\ FetchIter(3) = 1
    /\ BatchLens(BatchesFrom(Enum({0 - j : j \in 1..5}), EFETCH_BATCH_SIZE, 0)) = <<5>>

\* C12: when _search_entrez has run to its end without a failed remote call, the
\* posts together sent every ordinary identifier exactly once and no WGS
\* identifier, the direct fetches together sent every WGS identifier exactly once
\* and no ordinary one, there were ceil(|ordinary| / epost_batch_size) posts and
\* ceil(|WGS| / 100) direct fetches; the batch sizes of the examples are as stated.
C12_EachIdentifierSentOnce ==
    /\ C12_Examples
    /\ FailureFreeRun =>
          LET ordinary == {x \in search_acc_nums : x > 0}
              wgs      == {x \in search_acc_nums : x < 0}
              sent_p   == Flatten(posted)
              sent_f   == Flatten(fetched)
          IN  /\ Range(sent_p) = ordinary
              /\ Len(sent_p) = Cardinality(ordinary)
              /\ Range(sent_f) = wgs
              /\ Len(sent_f) = Cardinality(wgs)
              /\ Len(posted) * epost_batch_size >= Cardinality(ordinary)
              /\ (Len(posted) - 1) * epost_batch_size < Cardinality(ordinary)
              /\ Len(fetched) * 100 >= Cardinality(wgs)
              /\ (Len(fetched) - 1) * 100 < Cardinality(wgs)

\* a failure-free run of two posts and two direct fetches
C12_Witness ==
    /\ FailureFreeRun
    /\ Len(posted) = 2
    /\ Len(fetched) = 2

\* the successful paginated fetches of bulk batch j, in order
PagesOf(j) == SelectSeq(paged, LAMBDA e : e.batch = j)

\* C13: in _search_entrez, for every posted batch of n identifiers the paginated
\* fetches have the offsets 0, 100, 200, ... in this order, every offset requested
\* (failed attempts included) is a multiple of 100 below n, at most ceil(n / 100)
\* pages are fetched, and exactly ceil(n / 100) when no remote call failed.
C13_FetchCursor ==
    InSearchEntrez =>
        /\ \A j \in DOMAIN posted :
              LET n     == Len(posted[j])
                  pages == PagesOf(j)
              IN  /\ \A k \in DOMAIN pages :
                        /\ pages[k].retstart = (k - 1) * 100
                        /\ pages[k].retstart < n
                  /\ (Len(pages) - 1) * 100 < n
                  /\ FailureFreeRun => Len(pages) * 100 >= n
        /\ \A k \in DOMAIN paged :
              k > 1 => \/ paged[k].batch = paged[k - 1].batch
                       \/ paged[k].batch = paged[k - 1].batch + 1
        /\ AtPagedRequest =>
              /\ last_req.retstart < Len(posted[b])
              /\ last_req.retstart % 100 = 0
              /\ last_call.outcome = "ok" =>
                    last_req.retstart = (Len(PagesOf(b)) - 1) * 100
              /\ (last_call.outcome # "ok" /\ tries > 0) =>
                    last_req.retstart = Len(PagesOf(b)) * 100

\* a failure-free run in which a batch of 101 identifiers was posted and its
\* second page fetched at offset 100
C13_Witness ==
    /\ FailureFreeRun
    /\ \E k \in DOMAIN paged :
          /\ paged[k].retstart = 100
          /\ Len(posted[paged[k].batch]) = 101

\* the payloads of kind k the sink has been given, in order
ParsedOf(k) == SelectSeq(entrez_parser.parsed, LAMBDA h : h.kind = k)

\* every page of bulk batch j has been fetched and given to the sink
AllPagesParsed(j) ==
    LET done == SelectSeq(ParsedOf("page"), LAMBDA h : h.batch = j)
    IN  /\ Len(done) * 100 >= Len(bulk_batches[j])
        /\ Len(done) = Len(PagesOf(j))

InDirectPhase == pc \in {"fetch", "fetch_loop", "parse_direct"} \/ d > 0

\* C14: in _search_entrez the post of a bulk batch is issued only when every page
\* of every earlier bulk batch has been fetched and parsed, a direct fetch only
\* when that holds of every bulk batch, and at most one fetched payload is not
\* parsed yet, namely the one about to be parsed.
C14_BatchesSequential ==
    InSearchEntrez =>
        /\ pc \in {"post", "post_loop"} => \A j \in 1..(b - 1) : AllPagesParsed(j)
        /\ \A j \in DOMAIN posted : \A k \in 1..(j - 1) : AllPagesParsed(k)
        /\ InDirectPhase => \A j \in DOMAIN bulk_batches : AllPagesParsed(j)
        /\ Len(fetched) > 0 => \A j \in DOMAIN bulk_batches : AllPagesParsed(j)
        /\ LET unparsed == Len(paged) + Len(fetched)
                             - Len(ParsedOf("page")) - Len(ParsedOf("direct"))
           IN  /\ unparsed \in {0, 1}
               /\ unparsed = 1 <=>
                     /\ pc \in {"parse_page", "parse_direct"}
                     /\ handle # TupleOfNone

\* the second direct batch is being fetched after two bulk batches
C14_Witness ==
    /\ InSearchEntrez
    /\ pc = "fetch_loop"
    /\ d = 2
    /\ Len(posted) = 2

\* C15: in each of the three remote calls an HTTP error answer with a status code
\* from 400 to 599, both included, is followed by a sleep and the loop goes on
\* (until it has run 3 times); an HTTP error answer with any other code, and a
\* connection-level error, end the call at once as a fatal failure, with no sleep.
C15_FailureClassification ==
    LET http    == resp.kind = "HTTPError"
        inrange == 400 <= resp.code /\ resp.code <= 599
    IN  /\ resp.kind # "none" => last_req.call \in {"epost", "efetch_hist", "efetch"}
        /\ (http /\ inrange) =>
              /\ sleeps = tries
              /\ attempt = tries
              /\ \/ InLoop /\ last_call = NoCall
                 \/ /\ pc = "returned"
                    /\ last_call.outcome = "exhausted"
                    /\ tries = 3
        /\ ((http /\ ~inrange) \/ resp.kind = "URLError") =>
              /\ sleeps = tries - 1
              /\ pc = "returned"
              /\ last_call.outcome = "fatal"
              /\ last_call.call = last_req.call

\* a boundary code: a paginated fetch is still in its loop after the answer 599
\* to its second request
C15_Witness ==
    /\ pc = "fetch_hist_loop"
    /\ resp = [kind |-> "HTTPError", code |-> 599]
    /\ tries = 2
    /\ sleeps = 2

\* n pauses of s seconds
PauseRun(n, s) == [k \in 1..n |-> s]

\* the bulk batches and the direct batches _search_entrez has gone past
BulkBatchesPassed ==
    IF InDirectPhase \/ stop = "done" THEN Len(bulk_batches)
    ELSE IF b > 0 THEN b - 1 ELSE 0

DirectBatchesPassed ==
    IF stop = "done" THEN Len(wgs_batches)
    ELSE IF d > 0 THEN d - 1 ELSE 0

\* one pause of 3s for every bulk batch gone past and one of 5s for every direct
\* batch gone past, in this order, and none for the batch the orchestrator is at
\* or stopped in
PausesByPosition ==
    InSearchEntrez =>
        pauses = PauseRun(BulkBatchesPassed, 3) \o PauseRun(DirectBatchesPassed, 5)

\* C16: in _search_entrez exactly one pause lies between the remote calls of two
\* consecutive batches, 3s after a bulk batch and 5s after a direct batch; a pause
\* is taken only after all pages of its batch (the one payload of a direct batch)
\* were fetched and parsed; no pause follows a batch in which the orchestrator
\* stopped.
C16_PolitenessPause ==
    /\ PausesByPosition
    /\ InSearchEntrez =>
          /\ \A j \in 1..BulkBatchesPassed : AllPagesParsed(j)
          /\ DirectBatchesPassed <= Len(fetched)
          /\ DirectBatchesPassed <= Len(ParsedOf("direct"))

\* the same with the payload of a direct batch being whatever _entrez_fetch
\* returned, the tuple of line 133 included
PausesAfterParse ==
    /\ PausesByPosition
    /\ InSearchEntrez =>
          /\ \A j \in 1..BulkBatchesPassed : AllPagesParsed(j)
          /\ DirectBatchesPassed
                <= Len(ParsedOf("direct")) + Len(ParsedOf("tuple of None"))

\* C17: with a sink that has no is_parse_complete attribute the orchestrator never
\* stops because of a parse result, and when it has returned without a failed
\* remote call every page of every bulk batch and every direct batch (every page
\* of the caller's session, for a *_hist operation) was fetched and parsed.
C17_NoFlagAlwaysComplete ==
    (op # "none" /\ ~entrez_parser.has_flag) =>
        /\ stop # "incomplete"
        /\ (pc = "returned" /\ errlog = <<>>) =>
              /\ stop = "done"
              /\ parseCalls = Len(entrez_parser.parsed)
              /\ InSearchEntrez =>
                    /\ \A j \in DOMAIN bulk_batches : AllPagesParsed(j)
                    /\ Len(ParsedOf("direct")) = Len(wgs_batches)
                    /\ Len(fetched) = Len(wgs_batches)
              /\ op \in HistOps =>
                    /\ Len(ParsedOf("page")) = fetch_iter
                    /\ Len(paged) = fetch_iter

\* a sink without the attribute has been handed the pages of two bulk batches and
\* two direct payloads, and the orchestrator has returned
C17_Witness ==
    /\ InSearchEntrez
    /\ ~entrez_parser.has_flag
    /\ pc = "returned"
    /\ errlog = <<>>
    /\ Len(posted) = 2
    /\ Len(ParsedOf("direct")) = 2

\* the payloads the remote fetches that ended in success returned, in fetch order:
\* a page fetch and its parse call alternate, so do a direct fetch and its parse
\* call, and every page fetch comes before every direct fetch
FetchedPayloads ==
    [k \in DOMAIN paged |->
        [kind |-> "page", batch |-> paged[k].batch, retstart |-> paged[k].retstart]]
    \o [k \in DOMAIN fetched |-> [kind |-> "direct", batch |-> k, retstart |-> 0]]

\* a remote call that ends in failure leaves the sink as it was
FailedCallKeepsSink ==
    [][(last_call'.outcome \in {"fatal", "exhausted", "config"} /\ last_call' # last_call)
          => entrez_parser' = entrez_parser]_vars

\* C18: what the sink has accumulated is the payloads of the fetches that ended
\* in success, each parsed once and in fetch order and nothing else; at most the
\* last fetched payload is not parsed yet, and then it is the one about to be
\* parsed, before any other remote call.
C18_SinkFrame ==
    LET n == Len(entrez_parser.parsed)
        m == Len(FetchedPayloads)
    IN  /\ n <= m
        /\ entrez_parser.parsed = SubSeq(FetchedPayloads, 1, n)
        /\ m - n \in {0, 1}
        /\ m - n = 1 =>
              /\ pc \in {"parse_page", "parse_direct"}
              /\ handle = FetchedPayloads[m]

\* the remote calls _search_entrez plans for its input: one post and ceil(n / 100)
\* paginated fetches for every bulk batch of n identifiers, one direct fetch for
\* every direct batch
RECURSIVE PlannedPages(_)
PlannedPages(batches) ==
    IF batches = <<>> THEN 0
    ELSE (Len(Head(batches)) + 99) \div 100 + PlannedPages(Tail(batches))

PlannedCalls == Len(bulk_batches) + PlannedPages(bulk_batches) + Len(wgs_batches)

\* control has left the operation: it has returned, or a parse call has raised
Left == pc = "returned" \/ pc = "raised"

\* C19: whatever the remote service answers to each attempt and whatever the sink
\* does, an invocation of _search_entrez ends (it returns, unless a parse call
\* raises, which ends it too), and it has issued at most 3 requests for each
\* remote call it plans.
C19_Terminates ==
    /\ [](InSearchEntrez => netCalls <= 3 * PlannedCalls)
    /\ (InSearchEntrez ~> Left)

\* an invocation has ended after 3 requests for each of its 6 planned calls but the
\* last, which failed
C19_Witness ==
    /\ InSearchEntrez
    /\ pc = "returned"
    /\ PlannedCalls = 6
    /\ netCalls >= 16

====
